---- MODULE Spec2Model ----
(***************************************************************************)
(* Model of the JSON-RPC transport of ast-rs: the message codec            *)
(* (src/src/msg.rs), the reader/writer threads, the shutdown handshake     *)
(* (src/src/connection.rs) and the application loop (src/src/main.rs).     *)
(*                                                                         *)
(* A byte stream is a sequence of strings, one element per byte.  Header   *)
(* bytes and JSON punctuation and digits are single characters.  Two       *)
(* abbreviations keep the streams short: the content of a JSON string      *)
(* (between its quotes) is one element, and the bare word null is one      *)
(* element.  Content-Length counts elements.                               *)
(***************************************************************************)
EXTENDS Integers, Sequences, FiniteSets, TLC

\* ------------------------------------------------------------------------
\* Bounds of the model.
\* ------------------------------------------------------------------------
MaxSegs == 3
MaxCodecSegs == 3

\* ------------------------------------------------------------------------
\* Bytes and decimal text.
\* ------------------------------------------------------------------------
CR == "\r"
LF == "\n"
QUOTE == "\""
\* a byte that is not valid UTF-8
BadByte == "<FF>"

Digits == <<"0", "1", "2", "3", "4", "5", "6", "7", "8", "9">>

IsDigit(c) == \E d \in 1..10 : Digits[d] = c

DigitVal(c) == (CHOOSE d \in 1..10 : Digits[d] = c) - 1

RECURSIVE ToDecimal(_)
\* fmt::Display of a non-negative integer
ToDecimal(n) ==
    IF n < 10 THEN <<Digits[n + 1]>>
    ELSE ToDecimal(n \div 10) \o <<Digits[(n % 10) + 1]>>

\* fmt::Display of an i32
ToDecimalSigned(n) == IF n < 0 THEN <<"-">> \o ToDecimal(0 - n) ELSE ToDecimal(n)

RECURSIVE DigitsValue(_, _)
\* the number written by a run of digits, most significant first
DigitsValue(ds, acc) ==
    IF ds = <<>> THEN acc
    ELSE DigitsValue(Tail(ds), acc * 10 + DigitVal(Head(ds)))

AllDigits(ds) == \A k \in 1..Len(ds) : IsDigit(ds[k])

\* a parse that takes any text that is not a number for 0
ParseUsizeLenient(s) ==
    LET ds == IF s # <<>> /\ Head(s) = "+" THEN Tail(s) ELSE s
    IN  IF ds # <<>> /\ AllDigits(ds)
        THEN [ok |-> TRUE, n |-> DigitsValue(ds, 0)]
        ELSE [ok |-> TRUE, n |-> 0]

\* str::parse::<usize>: an optional '+', then one or more decimal digits
ParseUsize(s) ==
    LET ds == IF s # <<>> /\ Head(s) = "+" THEN Tail(s) ELSE s
    IN  IF ds # <<>> /\ AllDigits(ds)
        THEN [ok |-> TRUE, n |-> DigitsValue(ds, 0)]
        ELSE [ok |-> FALSE, n |-> 0]

\* ------------------------------------------------------------------------
\* serde_json::Value, and the message model of msg.rs.
\* ------------------------------------------------------------------------
JNull == [t |-> "null"]
JNum(n) == [t |-> "num", n |-> n]
JStr(s) == [t |-> "str", s |-> s]
\* an object: a sequence of [k, v] members
JObj(members) == [t |-> "obj", o |-> members]

\* Option<T>: <<>> is None, <<x>> is Some(x)
None == <<>>
Some(x) == <<x>>

\* RequestId(IdRepr)
IdI32(i) == [repr |-> "I32", i |-> i]
IdString(s) == [repr |-> "String", s |-> s]

MkRequest(id, method, params) ==
    [variant |-> "Request", id |-> id, method |-> method, params |-> params]

MkResponse(id, result, error) ==
    [variant |-> "Response", id |-> id, result |-> result, error |-> error]

MkResponseError(code, message, data) ==
    [code |-> code, message |-> message, data |-> data]

MkNotification(method, params) ==
    [variant |-> "Notification", method |-> method, params |-> params]

\* Response::new_ok(id, ()) : serde_json::to_value(()) is Value::Null
ResponseNewOkUnit(id) == MkResponse(id, Some(JNull), None)

\* Response::new_err
ResponseNewErr(id, code, message) ==
    MkResponse(id, None, Some(MkResponseError(code, message, None)))

\* a test that takes an "exit" request for a shutdown request as well
IsShutdownOrExit(req) == req.method = "shutdown" \/ req.method = "exit"

\* Request::is_shutdown
IsShutdown(req) == req.method = "shutdown"

\* Notification::is_exit
IsExit(n) == n.method = "exit"

\* ------------------------------------------------------------------------
\* Encoding: serde_json::to_string and write_msg_text.
\* ------------------------------------------------------------------------
RECURSIVE SerValue(_), SerMembers(_)
\* serde_json::to_string of a Value
SerValue(v) ==
    CASE v.t = "null" -> <<"null">>
      [] v.t = "num" -> ToDecimalSigned(v.n)
      [] v.t = "str" -> <<QUOTE, v.s, QUOTE>>
      [] v.t = "obj" -> <<"{">> \o SerMembers(v.o) \o <<"}">>

SerMembers(ms) ==
    IF ms = <<>> THEN <<>>
    ELSE <<QUOTE, Head(ms).k, QUOTE, ":">> \o SerValue(Head(ms).v)
         \o (IF Tail(ms) = <<>> THEN <<>> ELSE <<",">> \o SerMembers(Tail(ms)))

Member(k, v) == [k |-> k, v |-> v]

\* Serialize for RequestId (transparent over the untagged IdRepr)
IdValue(id) == IF id.repr = "I32" THEN JNum(id.i) ELSE JStr(id.s)

\* Serialize for ResponseError: data is skipped when None
ResponseErrorValue(e) ==
    JObj(<<Member("code", JNum(e.code)), Member("message", JStr(e.message))>>
         \o (IF e.data = None THEN <<>> ELSE <<Member("data", e.data[1])>>))

\* Serialize for the untagged Message: the members of the variant's struct,
\* with the skip_serializing_if attributes applied
MessageMembers(m) ==
    CASE m.variant = "Request" ->
            <<Member("id", IdValue(m.id)), Member("method", JStr(m.method))>>
            \o (IF m.params = JNull THEN <<>> ELSE <<Member("params", m.params)>>)
      [] m.variant = "Response" ->
            <<Member("id", IdValue(m.id))>>
            \o (IF m.result = None THEN <<>> ELSE <<Member("result", m.result[1])>>)
            \o (IF m.error = None THEN <<>>
                ELSE <<Member("error", ResponseErrorValue(m.error[1]))>>)
      [] m.variant = "Notification" ->
            <<Member("method", JStr(m.method))>>
            \o (IF m.params = JNull THEN <<>> ELSE <<Member("params", m.params)>>)

\* serde_json::to_string(&JsonRpc { jsonrpc: "2.0", msg }) with msg flattened
MessageText(m) ==
    SerValue(JObj(<<Member("jsonrpc", JStr("2.0"))>> \o MessageMembers(m)))

ContentLengthName ==
    <<"C", "o", "n", "t", "e", "n", "t", "-", "L", "e", "n", "g", "t", "h">>

\* the bytes write! emits: "Content-Length: {}\r\n\r\n"
FrameHeader(len) ==
    ContentLengthName \o <<":", " ">> \o ToDecimal(len) \o <<CR, LF, CR, LF>>

\* write_msg_text: the bytes a successful call puts on the stream
WriteMsgText(text) == FrameHeader(Len(text)) \o text

\* Message::write: the bytes of one frame
MessageWrite(m) == WriteMsgText(MessageText(m))

\* ------------------------------------------------------------------------
\* Decoding: serde_json::from_str into the untagged Message.
\* ------------------------------------------------------------------------
ParseFail == [ok |-> FALSE, v |-> JNull, next |-> 0]
ParseOk(v, next) == [ok |-> TRUE, v |-> v, next |-> next]

RECURSIVE NumEnd(_, _)
\* one past the run of digits that starts at i
NumEnd(s, i) == IF i <= Len(s) /\ IsDigit(s[i]) THEN NumEnd(s, i + 1) ELSE i

\* a JSON integer: '-'? then 0 or a digit run without a leading zero
ParseNumber(s, i) ==
    LET neg == s[i] = "-"
        d0 == IF neg THEN i + 1 ELSE i
        e == NumEnd(s, d0)
        ds == SubSeq(s, d0, e - 1)
    IN  IF ds = <<>> \/ (Len(ds) > 1 /\ ds[1] = "0") THEN ParseFail
        ELSE ParseOk(JNum(IF neg THEN 0 - DigitsValue(ds, 0) ELSE DigitsValue(ds, 0)), e)

\* a JSON string: quote, content, quote (the content is one element)
ParseString(s, i) ==
    IF i > Len(s) \/ s[i] # QUOTE THEN ParseFail
    ELSE IF i + 1 <= Len(s) /\ s[i + 1] = QUOTE THEN ParseOk(JStr(""), i + 2)
    ELSE IF i + 2 <= Len(s) /\ s[i + 2] = QUOTE /\ s[i + 1] # BadByte
         THEN ParseOk(JStr(s[i + 1]), i + 3)
    ELSE ParseFail

RECURSIVE ParseValue(_, _), ParseMembers(_, _, _)
\* one JSON value starting at s[i]; objects keep their members in document
\* order, duplicates included (serde's buffered Content)
ParseValue(s, i) ==
    IF i > Len(s) THEN ParseFail
    ELSE CASE s[i] = "null" -> ParseOk(JNull, i + 1)
           [] s[i] = QUOTE -> ParseString(s, i)
           [] s[i] = "-" \/ IsDigit(s[i]) -> ParseNumber(s, i)
           [] s[i] = "{" ->
                IF i + 1 <= Len(s) /\ s[i + 1] = "}" THEN ParseOk(JObj(<<>>), i + 2)
                ELSE ParseMembers(s, i + 1, <<>>)
           [] OTHER -> ParseFail

ParseMembers(s, i, acc) ==
    LET key == ParseString(s, i)
    IN  IF ~key.ok \/ key.next > Len(s) \/ s[key.next] # ":" THEN ParseFail
        ELSE LET val == ParseValue(s, key.next + 1)
                 all == Append(acc, Member(key.v.s, val.v))
             IN  IF ~val.ok \/ val.next > Len(s) THEN ParseFail
                 ELSE IF s[val.next] = "," THEN ParseMembers(s, val.next + 1, all)
                 ELSE IF s[val.next] = "}" THEN ParseOk(JObj(all), val.next + 1)
                 ELSE ParseFail

\* serde_json::from_str: one value and nothing after it
ParseJson(text) ==
    LET r == ParseValue(text, 1)
    IN  IF r.ok /\ r.next = Len(text) + 1 THEN r ELSE ParseFail

\* the keys of the model's alphabet in byte order (serde_json's Map is a BTreeMap)
KeyOrder ==
    <<"character", "code", "cursorPosition", "data", "error", "id", "jsonrpc",
      "language", "line", "message", "method", "params", "result", "x">>

Rank(k) ==
    IF \E r \in 1..Len(KeyOrder) : KeyOrder[r] = k
    THEN CHOOSE r \in 1..Len(KeyOrder) : KeyOrder[r] = k
    ELSE Len(KeyOrder) + 1

RECURSIVE MapInsert(_, _, _)
\* Map::insert: replaces the value of a key already present
MapInsert(ms, k, v) ==
    IF ms = <<>> THEN <<Member(k, v)>>
    ELSE IF Head(ms).k = k THEN <<Member(k, v)>> \o Tail(ms)
    ELSE IF Rank(k) < Rank(Head(ms).k) THEN <<Member(k, v)>> \o ms
    ELSE <<Head(ms)>> \o MapInsert(Tail(ms), k, v)

RECURSIVE ToValue(_), ToMap(_, _)
\* Deserialize for serde_json::Value from buffered content
ToValue(c) == IF c.t = "obj" THEN JObj(ToMap(c.o, <<>>)) ELSE c

ToMap(ms, acc) ==
    IF ms = <<>> THEN acc
    ELSE ToMap(Tail(ms), MapInsert(acc, Head(ms).k, ToValue(Head(ms).v)))

\* the values the members named k carry, in document order
FieldVals(ms, k) ==
    LET hits == SelectSeq(ms, LAMBDA m : m.k = k)
    IN  [j \in 1..Len(hits) |-> hits[j].v]

DecFail == [ok |-> FALSE]
DecOk(x) == [ok |-> TRUE, x |-> x]

\* Deserialize for RequestId: untagged IdRepr tries I32, then String
DecodeId(vs) ==
    IF Len(vs) # 1 THEN DecFail
    ELSE IF vs[1].t = "num" THEN DecOk(IdI32(vs[1].n))
    ELSE IF vs[1].t = "str" THEN DecOk(IdString(vs[1].s))
    ELSE DecFail

\* a required String field
DecodeString(vs) ==
    IF Len(vs) = 1 /\ vs[1].t = "str" THEN DecOk(vs[1].s) ELSE DecFail

\* params: serde(default = Value::default); a repeated field is an error
DecodeParams(vs) ==
    IF Len(vs) = 0 THEN DecOk(JNull)
    ELSE IF Len(vs) = 1 THEN DecOk(ToValue(vs[1]))
    ELSE DecFail

\* Option<Value>: an absent field and a null are both None
DecodeOptValue(vs) ==
    IF Len(vs) = 0 THEN DecOk(None)
    ELSE IF Len(vs) = 1 THEN DecOk(IF vs[1].t = "null" THEN None ELSE Some(ToValue(vs[1])))
    ELSE DecFail

\* Deserialize for ResponseError
DecodeResponseError(c) ==
    IF c.t # "obj" THEN DecFail
    ELSE LET code == FieldVals(c.o, "code")
             message == DecodeString(FieldVals(c.o, "message"))
             data == DecodeOptValue(FieldVals(c.o, "data"))
         IN  IF Len(code) = 1 /\ code[1].t = "num" /\ message.ok /\ data.ok
             THEN DecOk(MkResponseError(code[1].n, message.x, data.x))
             ELSE DecFail

\* Option<ResponseError>
DecodeOptError(vs) ==
    IF Len(vs) = 0 THEN DecOk(None)
    ELSE IF Len(vs) > 1 THEN DecFail
    ELSE IF vs[1].t = "null" THEN DecOk(None)
    ELSE LET e == DecodeResponseError(vs[1])
         IN  IF e.ok THEN DecOk(Some(e.x)) ELSE DecFail

\* Deserialize for Request
DecodeRequest(ms) ==
    LET id == DecodeId(FieldVals(ms, "id"))
        method == DecodeString(FieldVals(ms, "method"))
        params == DecodeParams(FieldVals(ms, "params"))
    IN  IF id.ok /\ method.ok /\ params.ok
        THEN DecOk(MkRequest(id.x, method.x, params.x)) ELSE DecFail

\* Deserialize for Response
DecodeResponse(ms) ==
    LET id == DecodeId(FieldVals(ms, "id"))
        result == DecodeOptValue(FieldVals(ms, "result"))
        error == DecodeOptError(FieldVals(ms, "error"))
    IN  IF id.ok /\ result.ok /\ error.ok
        THEN DecOk(MkResponse(id.x, result.x, error.x)) ELSE DecFail

\* Deserialize for Notification
DecodeNotification(ms) ==
    LET method == DecodeString(FieldVals(ms, "method"))
        params == DecodeParams(FieldVals(ms, "params"))
    IN  IF method.ok /\ params.ok
        THEN DecOk(MkNotification(method.x, params.x)) ELSE DecFail

\* Deserialize for the untagged Message: the first variant that decodes, in
\* declaration order Request, Response, Notification
DecodeMessage(c) ==
    IF c.t # "obj" THEN DecFail
    ELSE IF DecodeRequest(c.o).ok THEN DecodeRequest(c.o)
    ELSE IF DecodeResponse(c.o).ok THEN DecodeResponse(c.o)
    ELSE DecodeNotification(c.o)

\* serde_json::from_str::<Message>
MessageFromStr(text) ==
    LET r == ParseJson(text)
    IN  IF r.ok THEN DecodeMessage(r.v) ELSE DecFail

\* ------------------------------------------------------------------------
\* Framing: read_msg_text and Message::read over a stream inp read from
\* position i.  The end of inp is the end of the stream.
\* ------------------------------------------------------------------------
RECURSIVE LineEnd(_, _)
\* BufRead::read_line: the index of the first LF at or after i, or the last
\* index of the stream when there is none
LineEnd(inp, i) ==
    IF i > Len(inp) THEN Len(inp)
    ELSE IF inp[i] = LF THEN i
    ELSE LineEnd(inp, i + 1)

HasBadByte(bs) == \E k \in 1..Len(bs) : bs[k] = BadByte

\* str::ends_with("\r\n")
EndsWithCRLF(line) ==
    Len(line) >= 2 /\ line[Len(line) - 1] = CR /\ line[Len(line)] = LF

\* the index of the first ": " in buf, 0 when there is none (splitn(2, ": "))
SepIndex(buf) ==
    IF \E j \in 1..(Len(buf) - 1) : buf[j] = ":" /\ buf[j + 1] = " "
    THEN CHOOSE j \in 1..(Len(buf) - 1) :
            /\ buf[j] = ":" /\ buf[j + 1] = " "
            /\ \A h \in 1..(j - 1) : ~(buf[h] = ":" /\ buf[h + 1] = " ")
    ELSE 0

\* results of a read: kind is "none" (Ok(None)), "text"/"msg" (Ok(Some)), or
\* "err"; next is the first unread position; eof tells that the read met the
\* end of the stream
ReadErr(why, next, eof) ==
    [kind |-> "err", why |-> why, text |-> <<>>, next |-> next, eof |-> eof]

ReadNone(next) ==
    [kind |-> "none", why |-> "", text |-> <<>>, next |-> next, eof |-> TRUE]

ReadText(text, next) ==
    [kind |-> "text", why |-> "", text |-> text, next |-> next, eof |-> FALSE]

\* a body read that takes the end of the stream inside the payload for the
\* end of the stream between frames
ReadBodyEofIsNone(inp, i, size) ==
    IF size = None THEN ReadErr("no Content-Length", i, FALSE)
    ELSE IF i + size[1] - 1 > Len(inp) THEN ReadNone(Len(inp) + 1)
    ELSE IF HasBadByte(SubSeq(inp, i, i + size[1] - 1))
         THEN ReadErr("invalid utf-8", i + size[1], FALSE)
    ELSE ReadText(SubSeq(inp, i, i + size[1] - 1), i + size[1])

\* read_msg_text after the header loop: the Content-Length check, read_exact
\* and String::from_utf8
ReadBody(inp, i, size) ==
    IF size = None THEN ReadErr("no Content-Length", i, FALSE)
    ELSE IF i + size[1] - 1 > Len(inp) THEN ReadErr("failed to fill whole buffer", Len(inp) + 1, TRUE)
    ELSE IF HasBadByte(SubSeq(inp, i, i + size[1] - 1))
         THEN ReadErr("invalid utf-8", i + size[1], FALSE)
    ELSE ReadText(SubSeq(inp, i, i + size[1] - 1), i + size[1])

RECURSIVE ReadHeaders(_, _, _)
\* the header loop of read_msg_text; size is the Content-Length seen so far
ReadHeaders(inp, i, size) ==
    LET e == LineEnd(inp, i)
        line == SubSeq(inp, i, e)
        atEof == line = <<>> \/ line[Len(line)] # LF
        buf == SubSeq(line, 1, Len(line) - 2)
        sep == SepIndex(buf)
        header_name == SubSeq(buf, 1, sep - 1)
        header_value == SubSeq(buf, sep + 2, Len(buf))
        parsed == ParseUsize(header_value)
    IN  IF HasBadByte(line) THEN ReadErr("invalid utf-8", e + 1, atEof)
        ELSE IF line = <<>> THEN ReadNone(i)
        ELSE IF ~EndsWithCRLF(line) THEN ReadErr("malformed header", e + 1, atEof)
        ELSE IF buf = <<>> THEN ReadBody(inp, e + 1, size)
        ELSE IF sep = 0 THEN ReadErr("malformed header", e + 1, FALSE)
        ELSE IF header_name = ContentLengthName
             THEN IF parsed.ok THEN ReadHeaders(inp, e + 1, Some(parsed.n))
                  ELSE ReadErr("invalid digit", e + 1, FALSE)
        ELSE ReadHeaders(inp, e + 1, size)

\* read_msg_text
ReadMsgText(inp, i) == ReadHeaders(inp, i, None)

\* Message::read
MessageRead(inp, i) ==
    LET t == ReadMsgText(inp, i)
        d == MessageFromStr(t.text)
    IN  IF t.kind # "text" THEN [t EXCEPT !.text = <<>>] @@ [msg |-> <<>>]
        ELSE IF d.ok THEN [kind |-> "msg", why |-> "", text |-> <<>>, next |-> t.next,
                           eof |-> FALSE, msg |-> <<d.x>>]
        ELSE ReadErr("json", t.next, FALSE) @@ [msg |-> <<>>]

\* ------------------------------------------------------------------------
\* The peer: what it may put on the input stream.
\* ------------------------------------------------------------------------
ParseParams ==
    JObj(<<Member("code", JStr("x")),
           Member("cursorPosition",
                  JObj(<<Member("character", JNum(0)), Member("line", JNum(0))>>)),
           Member("language", JStr("python"))>>)

ReqShutdown == MkRequest(IdI32(1), "shutdown", JNull)
ReqOther == MkRequest(IdString("1"), "exit", JNull)
ReqParse == MkRequest(IdI32(2), "ParseAstInRange", ParseParams)
RespPeer == MkResponse(IdI32(1), Some(JStr("exit")), None)
NotifExit == MkNotification("exit", JNull)
NotifOther == MkNotification("x", JNull)

PeerMsgs == {ReqShutdown, ReqOther, ReqParse, RespPeer, NotifExit, NotifOther}

\* a header line without ": "
BadHeaderSeg == <<"x", CR, LF>>
\* a well-framed payload that is no message
BadJsonSeg == FrameHeader(2) \o <<"{", "}">>

PeerSegments == {MessageWrite(m) : m \in PeerMsgs} \cup {BadHeaderSeg, BadJsonSeg}

\* the segments on which the reader thread ends: it reads nothing after them
EndingSegments == {MessageWrite(NotifExit), BadHeaderSeg, BadJsonSeg}

\* what the peer sends after such a segment: the bytes are never read, so
\* one frame stands for them all
TrailingSegment == MessageWrite(ReqOther)

\* ------------------------------------------------------------------------
\* State.
\* ------------------------------------------------------------------------
VARIABLES
    transport,  \* "stdio" (stdio_transport) or "socket" (socket_transport)
    inp,        \* the bytes the peer has put on the input stream
    inClosed,   \* the peer has closed the input stream
    inEnded,    \* the peer has sent a segment on which the reader ends
    nsegs,      \* how many segments the peer has sent
    out,        \* the bytes on the output stream
    rpc,        \* reader thread: "read", "send", "done"
    rpos,       \* reader thread: first unread position of inp
    rmsg,       \* reader thread: the message it is sending, as an Option
    rres,       \* reader thread's outcome: "running", "ok", "err", "panic"
    decoded,    \* history: the messages Message::read returned to the reader
    rfailed,    \* history: Message::read failed on the reader thread
    wpc,        \* writer thread: "recv", "write", "done"
    wmsg,       \* writer thread: the message it is writing, as an Option
    wres,       \* writer thread's outcome
    wfailed,    \* history: Message::write failed on the writer thread
    apc,        \* application: "recv", "hs_send", "hs_recv", "hs_ret", "send",
                \* "join_reader", "join_writer", "exit"
    amsg,       \* application: the message it is sending, as an Option
    hs,         \* the handle_shutdown call in progress
    received,   \* history: the messages the application took from the inbound queue
    submitted,  \* history: the messages whose send on the outbound queue completed
    mainRet,    \* main_loop's result: "running", "ok", "err"
    joinRet,    \* IoThreads::join's result: "none", "ok", "err", "panic"
    cbuf,       \* codec on its own: an in-memory stream
    cclosed,    \* codec on its own: the stream is complete and is being read
    cwritten,   \* codec on its own: what made the stream, message or raw bytes
    cpos,       \* codec on its own: first unread position of cbuf
    creads      \* codec on its own: the results of the calls of Message::read

vars == <<transport, inp, inClosed, inEnded, nsegs, out, rpc, rpos, rmsg, rres,
          decoded, rfailed, wpc, wmsg, wres, wfailed, apc, amsg, hs, received,
          submitted, mainRet, joinRet, cbuf, cclosed, cwritten, cpos, creads>>

codecVars == <<cbuf, cclosed, cwritten, cpos, creads>>
envVars == <<transport, inp, inClosed, inEnded, nsegs, codecVars>>
readerVars == <<rpc, rpos, rmsg, rres, decoded, rfailed>>
writerVars == <<out, wpc, wmsg, wres, wfailed>>
appVars == <<apc, amsg, hs, received, submitted, mainRet, joinRet>>

transportVars ==
    <<transport, inp, inClosed, inEnded, nsegs, readerVars, writerVars, appVars>>

HsIdle == [req |-> None, sent0 |-> 0, recv0 |-> 0, pushed |-> FALSE, ret |-> "none",
           cause |-> ""]

CodecIdle ==
    /\ cbuf = <<>> /\ cclosed = FALSE /\ cwritten = <<>> /\ cpos = 1 /\ creads = <<>>

TransportStart ==
    /\ inp = <<>> /\ inClosed = FALSE /\ inEnded = FALSE /\ nsegs = 0
    /\ out = <<>>
    /\ rpc = "read" /\ rpos = 1 /\ rmsg = None /\ rres = "running"
    /\ decoded = <<>> /\ rfailed = FALSE
    /\ wpc = "recv" /\ wmsg = None /\ wres = "running" /\ wfailed = FALSE
    /\ apc = "recv" /\ amsg = None /\ hs = HsIdle
    /\ received = <<>> /\ submitted = <<>>
    /\ mainRet = "running" /\ joinRet = "none"

Init ==
    /\ transport \in {"stdio", "socket"}
    /\ TransportStart
    /\ CodecIdle

\* the process runs until main returns
Alive == apc # "exit"

\* ------------------------------------------------------------------------
\* The environment.
\* ------------------------------------------------------------------------
\* the peer appends a segment; nothing reads the stream once the reader has
\* ended, so the model stops the peer there
PeerSend(seg) ==
    /\ Alive /\ rpc # "done" /\ ~inClosed /\ nsegs < MaxSegs
    /\ inEnded => seg = TrailingSegment
    /\ inp' = inp \o seg
    /\ inEnded' = (inEnded \/ seg \in EndingSegments)
    /\ nsegs' = nsegs + 1
    /\ UNCHANGED <<transport, inClosed, codecVars>>
    /\ UNCHANGED <<readerVars, writerVars, appVars>>

\* the peer closes the stream
PeerClose ==
    /\ Alive /\ rpc # "done" /\ ~inClosed
    /\ inClosed' = TRUE
    /\ UNCHANGED <<transport, inp, inEnded, nsegs, codecVars>>
    /\ UNCHANGED <<readerVars, writerVars, appVars>>

\* ------------------------------------------------------------------------
\* The reader thread (stdio_transport, make_reader).
\* ------------------------------------------------------------------------
\* how the reader ends when Message::read fails: stdio_transport returns the
\* error with `?`, make_reader calls unwrap()
ReadFault(tr) == IF tr = "stdio" THEN "err" ELSE "panic"

\* a reader that forwards requests and notifications only
ReaderOnReadDropsResponses(r, tr) ==
    CASE r.kind = "msg" ->
            IF r.msg[1].variant = "Response" THEN [pc |-> "read", res |-> "running"]
            ELSE [pc |-> "send", res |-> "running"]
      [] r.kind = "none" -> [pc |-> "done", res |-> "ok"]
      [] r.kind = "err" -> [pc |-> "done", res |-> ReadFault(tr)]

\* a reader that skips a frame it cannot read and goes on
ReaderOnReadSkipsErrors(r, tr) ==
    CASE r.kind = "msg" -> [pc |-> "send", res |-> "running"]
      [] r.kind = "none" -> [pc |-> "done", res |-> "ok"]
      [] r.kind = "err" -> [pc |-> "read", res |-> "running"]

\* a reader that takes the end of the stream for a failure
ReaderOnReadEofIsError(r, tr) ==
    CASE r.kind = "msg" -> [pc |-> "send", res |-> "running"]
      [] r.kind = "none" -> [pc |-> "done", res |-> ReadFault(tr)]
      [] r.kind = "err" -> [pc |-> "done", res |-> ReadFault(tr)]

\* the loop after Message::read returned r: Some(msg) is sent, None ends the
\* loop with Ok, an error ends the thread
ReaderOnRead(r, tr) ==
    CASE r.kind = "msg" -> [pc |-> "send", res |-> "running"]
      [] r.kind = "none" -> [pc |-> "done", res |-> "ok"]
      [] r.kind = "err" -> [pc |-> "done", res |-> ReadFault(tr)]

\* is_exit of the loop body
IsExitMsg(m) == m.variant = "Notification" /\ IsExit(m)

\* a loop that goes on reading after the exit notification
ReaderAfterSendKeepsReading(m) == [pc |-> "read", res |-> "running"]

\* the loop after reader_sender.send(msg): break on exit
ReaderAfterSend(m) ==
    IF IsExitMsg(m) THEN [pc |-> "done", res |-> "ok"]
    ELSE [pc |-> "read", res |-> "running"]

\* Message::read on the input stream; a read that needs bytes beyond those
\* present blocks until the peer sends them or closes the stream
ReaderRead ==
    /\ Alive /\ rpc = "read"
    /\ LET r == MessageRead(inp, rpos)
           n == ReaderOnRead(r, transport)
       IN  /\ ~(r.eof /\ ~inClosed)
           /\ rpos' = r.next
           /\ rpc' = n.pc
           /\ rres' = n.res
           /\ rmsg' = r.msg
           /\ decoded' = decoded \o r.msg
           /\ rfailed' = (rfailed \/ r.kind = "err")
    /\ UNCHANGED <<envVars, writerVars, appVars>>

\* the reader's side of a completed reader_sender.send(msg)
ReaderSent ==
    /\ rpc' = ReaderAfterSend(rmsg[1]).pc
    /\ rres' = ReaderAfterSend(rmsg[1]).res
    /\ rmsg' = None
    /\ UNCHANGED <<rpos, decoded, rfailed>>

\* ------------------------------------------------------------------------
\* The writer thread (stdio_transport, make_write).
\* ------------------------------------------------------------------------
\* how the writer ends when Message::write fails
WriteFault(tr) == IF tr = "stdio" THEN "err" ELSE "panic"

\* a writer that puts each frame in front of the earlier ones
WriteToStreamPrepends(o, m) == MessageWrite(m) \o o

\* the output stream after a successful Message::write
WriteToStream(o, m) == o \o MessageWrite(m)

\* what a failing write_msg_text may leave on the stream: nothing, or the header
FailedWrites(m) == {<<>>, FrameHeader(Len(MessageText(m)))}

\* Message::write succeeds
WriterWrite ==
    /\ Alive /\ wpc = "write"
    /\ out' = WriteToStream(out, wmsg[1])
    /\ wmsg' = None
    /\ wpc' = "recv"
    /\ UNCHANGED <<wres, wfailed>>
    /\ UNCHANGED <<envVars, readerVars, appVars>>

\* Message::write fails: the output stream reports an I/O error
WriterWriteFail ==
    /\ Alive /\ wpc = "write"
    /\ \E part \in FailedWrites(wmsg[1]) : out' = out \o part
    /\ wmsg' = None
    /\ wpc' = "done"
    /\ wres' = WriteFault(transport)
    /\ wfailed' = TRUE
    /\ UNCHANGED <<envVars, readerVars, appVars>>

\* a writer that gives up while the application can still send
WriterEndsEarly ==
    /\ Alive /\ wpc = "recv"
    /\ wpc' = "done"
    /\ wres' = "ok"
    /\ UNCHANGED <<out, wmsg, wfailed>>
    /\ UNCHANGED <<envVars, readerVars, appVars>>

\* a writer whose queue stays open after main_loop has returned: it waits on
WriterEndKeepsWaiting ==
    /\ Alive /\ wpc = "recv" /\ mainRet # "running"
    /\ UNCHANGED <<out, wpc, wres, wmsg, wfailed>>
    /\ UNCHANGED <<envVars, readerVars, appVars>>

\* the iterator over writer_receiver ends once the sender is dropped, which
\* main_loop does by returning
WriterEnd ==
    /\ Alive /\ wpc = "recv" /\ mainRet # "running"
    /\ wpc' = "done"
    /\ wres' = "ok"
    /\ UNCHANGED <<out, wmsg, wfailed>>
    /\ UNCHANGED <<envVars, readerVars, appVars>>

\* a queue that lets a send complete while the writer is still writing
WriterTakesWhileWriting ==
    /\ wpc \in {"recv", "write"}
    /\ wmsg' = amsg
    /\ wpc' = "write"
    /\ UNCHANGED <<out, wres, wfailed>>

\* the writer's side of a completed send on the outbound queue
WriterTakes ==
    /\ wpc = "recv"
    /\ wmsg' = amsg
    /\ wpc' = "write"
    /\ UNCHANGED <<out, wres, wfailed>>

\* ------------------------------------------------------------------------
\* Connection::handle_shutdown.
\* ------------------------------------------------------------------------
\* a response that does not echo the request's id
ShutdownResponseFixedId(req) == ResponseNewOkUnit(IdI32(0))

\* Response::new_ok(req.id.clone(), ())
ShutdownResponse(req) == ResponseNewOkUnit(req.id)

\* a match that takes any notification for the exit notification
ShutdownOutcomeAnyNotification(r) ==
    IF r.ok THEN (IF r.msg.variant = "Notification" THEN "true" ELSE "unexpected message")
    ELSE "unexpected error"

\* a match that takes a failed receive for the end of the handshake
ShutdownOutcomeErrIsDone(r) ==
    IF r.ok THEN (IF r.msg.variant = "Notification" /\ IsExit(r.msg) THEN "true"
                  ELSE "unexpected message")
    ELSE "true"

\* the match on recv_timeout's result: r.ok tells Ok(msg) from Err(e)
ShutdownOutcome(r) ==
    IF r.ok THEN (IF r.msg.variant = "Notification" /\ IsExit(r.msg) THEN "true"
                  ELSE "unexpected message")
    ELSE "unexpected error"

RecvOk(m) == [ok |-> TRUE, msg |-> m]
RecvErr == [ok |-> FALSE, msg |-> NotifOther]

\* entering handle_shutdown(req): the early return, or the response to send
HsEnter(req) ==
    /\ hs' = [HsIdle EXCEPT !.req = Some(req), !.sent0 = Len(submitted),
                            !.recv0 = Len(received) + 1,
                            !.ret = IF IsShutdown(req) THEN "none" ELSE "false"]
    /\ amsg' = IF IsShutdown(req) THEN Some(ShutdownResponse(req)) ELSE None
    /\ apc' = IF IsShutdown(req) THEN "hs_send" ELSE "hs_ret"

\* self.sender.send(resp.into()) completes: the writer took the response
HsSendOk ==
    /\ Alive /\ apc = "hs_send"
    /\ WriterTakes
    /\ submitted' = Append(submitted, amsg[1])
    /\ hs' = [hs EXCEPT !.pushed = TRUE]
    /\ amsg' = None
    /\ apc' = "hs_recv"
    /\ UNCHANGED <<received, mainRet, joinRet>>
    /\ UNCHANGED <<envVars, readerVars>>

\* the send fails because the writer has ended; `let _ =` drops the error
HsSendFail ==
    /\ Alive /\ apc = "hs_send" /\ wpc = "done"
    /\ amsg' = None
    /\ apc' = "hs_recv"
    /\ UNCHANGED <<hs, received, submitted, mainRet, joinRet>>
    /\ UNCHANGED <<envVars, readerVars, writerVars>>

\* recv_timeout returns Ok(msg)
HsRecvMsg ==
    /\ Alive /\ apc = "hs_recv" /\ rpc = "send"
    /\ ReaderSent
    /\ received' = Append(received, rmsg[1])
    /\ hs' = [hs EXCEPT !.ret = ShutdownOutcome(RecvOk(rmsg[1])), !.cause = "message"]
    /\ apc' = "hs_ret"
    /\ UNCHANGED <<amsg, submitted, mainRet, joinRet>>
    /\ UNCHANGED <<envVars, writerVars>>

\* recv_timeout returns Err(Timeout): 30 seconds pass and the reader offers nothing
HsRecvTimeout ==
    /\ Alive /\ apc = "hs_recv" /\ rpc = "read"
    /\ hs' = [hs EXCEPT !.ret = ShutdownOutcome(RecvErr), !.cause = "timeout"]
    /\ apc' = "hs_ret"
    /\ UNCHANGED <<amsg, received, submitted, mainRet, joinRet>>
    /\ UNCHANGED <<envVars, readerVars, writerVars>>

\* recv_timeout returns Err(Disconnected): the reader has ended
HsRecvDisconnected ==
    /\ Alive /\ apc = "hs_recv" /\ rpc = "done"
    /\ hs' = [hs EXCEPT !.ret = ShutdownOutcome(RecvErr), !.cause = "disconnected"]
    /\ apc' = "hs_ret"
    /\ UNCHANGED <<amsg, received, submitted, mainRet, joinRet>>
    /\ UNCHANGED <<envVars, readerVars, writerVars>>

\* ------------------------------------------------------------------------
\* main_loop and main.
\* ------------------------------------------------------------------------
Languages ==
    {"python", "c", "javascript", "typescript", "golang", "java", "cpp", "csharp", "rust"}

\* the value of the member named k of a Value object, as an Option
Get(v, k) == IF v.t = "obj" THEN FieldVals(v.o, k) ELSE <<>>

IsUsize(vs) == Len(vs) = 1 /\ vs[1].t = "num" /\ vs[1].n >= 0

\* serde_json::from_value::<ParseAstInRangeParams>
DecodeParseParams(v) ==
    LET language == DecodeString(Get(v, "language"))
        code == DecodeString(Get(v, "code"))
        cursor == Get(v, "cursorPosition")
    IN  IF /\ language.ok /\ code.ok /\ Len(cursor) = 1
           /\ IsUsize(Get(cursor[1], "line")) /\ IsUsize(Get(cursor[1], "character"))
        THEN DecOk([language |-> language.x, code |-> code.x])
        ELSE DecFail

\* the serialized ParseAstInRangeResponse (the syntax tree is not modelled)
AstResult == JStr("ast")

\* a dispatch that answers every request under the id 0
MainDispatchFixedId(req) ==
    {[err |-> FALSE, resp |-> Some(ResponseNewErr(IdI32(0), 1, "invalid method"))]}

\* what main_loop does with a request that is not a shutdown: the set of
\* possible steps, each an error return or one response to send
MainDispatch(req) ==
    IF req.method = "ParseAstInRange"
    THEN LET p == DecodeParseParams(req.params)
         IN  IF ~p.ok THEN {[err |-> TRUE, resp |-> None]}
             ELSE IF p.x.language \notin Languages
                  THEN {[err |-> FALSE, resp |-> Some(ResponseNewErr(req.id, 1, "invalid language"))]}
             ELSE IF p.x.code = ""
                  THEN {[err |-> FALSE, resp |-> Some(ResponseNewErr(req.id, 1, "code is empty"))]}
             ELSE {[err |-> FALSE, resp |-> Some(ResponseNewErr(req.id, 1, "ast parse fail"))],
                   [err |-> FALSE, resp |-> Some(MkResponse(req.id, Some(AstResult), None))]}
    ELSE {[err |-> FALSE, resp |-> Some(ResponseNewErr(req.id, 1, "invalid method"))]}

\* `for msg in &connection.receiver` yields a message
MainRecv ==
    /\ Alive /\ apc = "recv" /\ rpc = "send"
    /\ ReaderSent
    /\ received' = Append(received, rmsg[1])
    /\ IF rmsg[1].variant = "Request" THEN HsEnter(rmsg[1])
       ELSE UNCHANGED <<apc, amsg, hs>>
    /\ UNCHANGED <<submitted, mainRet, joinRet>>
    /\ UNCHANGED <<envVars, writerVars>>

\* the receiver iterator ends: the reader has ended, main_loop returns Ok
MainLoopEnd ==
    /\ Alive /\ apc = "recv" /\ rpc = "done"
    /\ mainRet' = "ok"
    /\ apc' = "join_reader"
    /\ UNCHANGED <<amsg, hs, received, submitted, joinRet>>
    /\ UNCHANGED <<envVars, readerVars, writerVars>>

\* main_loop after handle_shutdown returned: `?` on an error, return on true,
\* dispatch on false
AfterShutdown ==
    /\ Alive /\ apc = "hs_ret"
    /\ hs' = HsIdle
    /\ CASE hs.ret = "true" ->
                mainRet' = "ok" /\ apc' = "join_reader" /\ amsg' = None
         [] hs.ret = "false" ->
                \E d \in MainDispatch(hs.req[1]) :
                    /\ amsg' = d.resp
                    /\ mainRet' = IF d.err THEN "err" ELSE "running"
                    /\ apc' = IF d.err THEN "exit" ELSE "send"
         [] OTHER ->
                mainRet' = "err" /\ apc' = "exit" /\ amsg' = None
    /\ UNCHANGED <<received, submitted, joinRet>>
    /\ UNCHANGED <<envVars, readerVars, writerVars>>

\* connection.sender.send(Message::Response(resp))? completes
MainSendOk ==
    /\ Alive /\ apc = "send"
    /\ WriterTakes
    /\ submitted' = Append(submitted, amsg[1])
    /\ amsg' = None
    /\ apc' = "recv"
    /\ UNCHANGED <<hs, received, mainRet, joinRet>>
    /\ UNCHANGED <<envVars, readerVars>>

\* the send fails because the writer has ended: main_loop returns the error
\* and main returns it without joining
MainSendFail ==
    /\ Alive /\ apc = "send" /\ wpc = "done"
    /\ amsg' = None
    /\ mainRet' = "err"
    /\ apc' = "exit"
    /\ UNCHANGED <<hs, received, submitted, joinRet>>
    /\ UNCHANGED <<envVars, readerVars, writerVars>>

\* ------------------------------------------------------------------------
\* IoThreads::join.
\* ------------------------------------------------------------------------
\* a join that turns the reader's panic into an Err value
JoinReaderPanicIsErr ==
    /\ apc = "join_reader" /\ rpc = "done"
    /\ apc' = IF rres = "ok" THEN "join_writer" ELSE "exit"
    /\ joinRet' = IF rres = "ok" THEN "none" ELSE "err"
    /\ UNCHANGED <<amsg, hs, received, submitted, mainRet>>
    /\ UNCHANGED <<envVars, readerVars, writerVars>>

\* self.reader.join(): Ok(r) => r?, Err(_) => panic
JoinReader ==
    /\ apc = "join_reader" /\ rpc = "done"
    /\ apc' = IF rres = "ok" THEN "join_writer" ELSE "exit"
    /\ joinRet' = IF rres = "ok" THEN "none" ELSE rres
    /\ UNCHANGED <<amsg, hs, received, submitted, mainRet>>
    /\ UNCHANGED <<envVars, readerVars, writerVars>>

\* self.writer.join(): Ok(r) => r, Err(_) => panic
JoinWriter ==
    /\ apc = "join_writer" /\ wpc = "done"
    /\ apc' = "exit"
    /\ joinRet' = wres
    /\ UNCHANGED <<amsg, hs, received, submitted, mainRet>>
    /\ UNCHANGED <<envVars, readerVars, writerVars>>

Next ==
    \/ \E seg \in PeerSegments : PeerSend(seg)
    \/ PeerClose
    \/ ReaderRead
    \/ WriterWrite
    \/ WriterWriteFail
    \/ WriterEnd
    \/ HsSendOk
    \/ HsSendFail
    \/ HsRecvMsg
    \/ HsRecvTimeout
    \/ HsRecvDisconnected
    \/ MainRecv
    \/ MainLoopEnd
    \/ AfterShutdown
    \/ MainSendOk
    \/ MainSendFail
    \/ JoinReader
    \/ JoinWriter

Spec == Init /\ [][Next]_vars

\* ------------------------------------------------------------------------
\* The standard-stream server with a peer that sends well-formed frames and
\* an output stream that takes every write, under fair scheduling of the
\* three threads.
\* ------------------------------------------------------------------------
WellFormedSegments == {MessageWrite(m) : m \in PeerMsgs}

\* the reader waits for bytes of the peer: the stream is open and holds no
\* whole frame at the read position
ReaderAwaitsPeer == rpc = "read" /\ ~inClosed /\ MessageRead(inp, rpos).eof

\* the 30 seconds of recv_timeout pass only while the reader waits for the
\* peer: a reader that has a frame to read reads it within that time
LiveRecvTimeout == ReaderAwaitsPeer /\ HsRecvTimeout

ReaderStep == ReaderRead

WriterStep == WriterWrite \/ WriterEnd

AppStep ==
    \/ HsSendOk
    \/ HsRecvMsg
    \/ HsRecvDisconnected
    \/ MainRecv
    \/ MainLoopEnd
    \/ AfterShutdown
    \/ MainSendOk
    \/ JoinReader
    \/ JoinWriter

LiveInit ==
    /\ transport = "stdio"
    /\ TransportStart
    /\ CodecIdle

LiveNext ==
    \/ \E seg \in WellFormedSegments : PeerSend(seg)
    \/ PeerClose
    \/ LiveRecvTimeout
    \/ ReaderStep
    \/ WriterStep
    \/ AppStep

\* the enabling condition of ReaderRead
ReaderCanStep == Alive /\ rpc = "read" /\ ~ReaderAwaitsPeer

\* Weak fairness of the three threads.  A step of the reader leaves
\* rpc = "read" and so disables the reader, which makes WF_vars(ReaderStep)
\* the same as the reader being disabled again and again; it is written so,
\* with the enabling condition spelled out.
SpecLive ==
    /\ LiveInit /\ [][LiveNext]_vars
    /\ []<>(~ReaderCanStep) /\ WF_vars(WriterStep) /\ WF_vars(AppStep)

\* ------------------------------------------------------------------------
\* The codec on its own: Message::write and Message::read on an in-memory
\* stream (a Vec<u8> written to, then read through a BufRead).
\* ------------------------------------------------------------------------
CodecMsgs ==
    {MkRequest(IdI32(92), "shutdown", JNull),
     MkRequest(IdString("92"), "x", JStr("x")),
     ResponseNewOkUnit(IdI32(92)),
     MkResponse(IdString("92"), None, None),
     MkResponse(IdI32(92), Some(JStr("x")), None),
     ResponseNewErr(IdI32(92), 1, "x"),
     MkNotification("exit", JNull),
     MkNotification("x", ParseParams)}

\* header lines put on the stream byte by byte
LengthLine == ContentLengthName \o <<":", " ", "2", CR, LF>>
OtherLine == <<"x", ":", " ", "x", CR, LF>>
BlankLine == <<CR, LF>>
\* a header line ended by LF alone
LfOnlyLine == <<"x", ":", " ", "x", LF>>
\* Content-Length headers whose value is no non-negative decimal integer
BadLengthLine == ContentLengthName \o <<":", " ", "x", CR, LF>>
NegLengthLine == ContentLengthName \o <<":", " ", "-", "2", CR, LF>>
\* a header line with two ": " in it
TwoSepLine == <<"x", ":", " ", "x", ":", " ", "x", CR, LF>>

\* one frame delivered in two chunks, cut inside its payload
ChunkedFrame == MessageWrite(MkNotification("exit", JNull))
ChunkCut == Len(ChunkedFrame) - 3
HeadChunk == SubSeq(ChunkedFrame, 1, ChunkCut)
TailChunk == SubSeq(ChunkedFrame, ChunkCut + 1, Len(ChunkedFrame))

RawSegments ==
    {LengthLine, OtherLine, BlankLine, LfOnlyLine, BadHeaderSeg, BadLengthLine,
     NegLengthLine, TwoSepLine, HeadChunk, TailChunk}

CodecWrite(m) ==
    /\ ~cclosed /\ Len(cwritten) < MaxCodecSegs
    /\ cbuf' = WriteToStream(cbuf, m)
    /\ cwritten' = Append(cwritten, [raw |-> FALSE, msg |-> Some(m)])
    /\ UNCHANGED <<cclosed, cpos, creads, transportVars>>

CodecPut(seg) ==
    /\ ~cclosed /\ Len(cwritten) < MaxCodecSegs
    /\ cbuf' = cbuf \o seg
    /\ cwritten' = Append(cwritten, [raw |-> TRUE, msg |-> None])
    /\ UNCHANGED <<cclosed, cpos, creads, transportVars>>

CodecClose ==
    /\ ~cclosed
    /\ cclosed' = TRUE
    /\ UNCHANGED <<cbuf, cwritten, cpos, creads, transportVars>>

\* a caller stops reading at the first error, and reads twice at most at the
\* end of the stream
CodecRead ==
    /\ cclosed
    /\ ~(creads # <<>> /\ creads[Len(creads)].kind = "err")
    /\ Len(SelectSeq(creads, LAMBDA r : r.kind = "none")) < 2
    /\ LET r == MessageRead(cbuf, cpos)
       IN  /\ creads' = Append(creads, [start |-> cpos, kind |-> r.kind, why |-> r.why,
                                        msg |-> r.msg, next |-> r.next])
           /\ cpos' = r.next
    /\ UNCHANGED <<cbuf, cclosed, cwritten, transportVars>>

CodecInit ==
    /\ transport = "stdio"
    /\ TransportStart
    /\ CodecIdle

CodecNext ==
    \/ \E m \in CodecMsgs : CodecWrite(m)
    \/ \E seg \in RawSegments : CodecPut(seg)
    \/ CodecClose
    \/ CodecRead

SpecCodec == CodecInit /\ [][CodecNext]_vars

\* ------------------------------------------------------------------------
\* The decoder on its own: Message::read on one frame whose payload is a
\* JSON object with any choice of the fields of the three variants.
\* ------------------------------------------------------------------------
\* the values a field of the payload may have, None being an absent field
IdChoices == {None, Some(JNum(1)), Some(JStr("1")), Some(JNull)}
MethodChoices == {None, Some(JStr("x")), Some(JNum(1))}
ParamsChoices == {None, Some(JStr("x"))}
ResultChoices == {None, Some(JNull), Some(JStr("x"))}
ErrorChoices ==
    {None, Some(JStr("x")),
     Some(JObj(<<Member("code", JNum(1)), Member("message", JStr("x"))>>))}
JsonrpcChoices == {None, Some(JStr("2.0"))}

DecodeInputs ==
    [id : IdChoices, method : MethodChoices, params : ParamsChoices,
     result : ResultChoices, error : ErrorChoices, jsonrpc : JsonrpcChoices]

\* the member named k with the value of the option v, when there is one
OptMember(k, v) == IF v = None THEN <<>> ELSE <<Member(k, v[1])>>

\* the frame that carries the payload of the input in
PayloadFrame(in) ==
    WriteMsgText(SerValue(JObj(OptMember("jsonrpc", in.jsonrpc) \o OptMember("id", in.id)
                               \o OptMember("method", in.method)
                               \o OptMember("params", in.params)
                               \o OptMember("result", in.result)
                               \o OptMember("error", in.error))))

DecodeInit ==
    /\ transport = "stdio"
    /\ TransportStart
    /\ \E in \in DecodeInputs : cbuf = PayloadFrame(in)
    /\ cclosed = TRUE /\ cwritten = <<>> /\ cpos = 1 /\ creads = <<>>

DecodeNext == CodecRead

SpecDecode == DecodeInit /\ [][DecodeNext]_vars

\* ------------------------------------------------------------------------
\* Properties.
\* ------------------------------------------------------------------------
IsPrefix(a, b) == Len(a) <= Len(b) /\ a = SubSeq(b, 1, Len(a))

Last(q) == q[Len(q)]

RECURSIVE Frames(_)
\* the bytes of the frames of the messages ms, in order
Frames(ms) == IF ms = <<>> THEN <<>> ELSE MessageWrite(Head(ms)) \o Frames(Tail(ms))

\* C1: inbound FIFO.  At every point the messages the application has taken
\* from the inbound queue are a prefix of the messages the reader thread
\* decoded, in the same order; nothing is lost: only the one message the
\* reader is handing over may be missing, and none is once the reader is
\* past its send.
C1_InboundFifo ==
    /\ IsPrefix(received, decoded)
    /\ Len(decoded) <= Len(received) + 1
    /\ rpc # "send" => received = decoded
    /\ rpc = "send" => rmsg = Some(Last(decoded)) /\ Len(decoded) = Len(received) + 1

\* three different frames went through the inbound queue
C1_Witness ==
    /\ Len(received) = 3
    /\ received[1] # received[2] /\ received[2] # received[3] /\ received[1] # received[3]

\* C2: outbound FIFO.  At every point the output stream holds the frames of
\* a prefix of the submitted messages, in order, each once and whole; only
\* the one message the writer holds may be missing, and a write that failed
\* may have left that message's header behind.
C2_OutboundFifo ==
    \E n \in 0..Len(submitted) :
        /\ n >= Len(submitted) - 1
        /\ n = Len(submitted) - 1 <=> (wpc = "write" \/ wfailed)
        /\ \/ out = Frames(SubSeq(submitted, 1, n))
           \/ /\ wfailed
              /\ out = Frames(SubSeq(submitted, 1, n))
                         \o FrameHeader(Len(MessageText(submitted[n + 1])))

\* three messages were submitted and all three are on the stream
C2_Witness ==
    /\ Len(submitted) = 3
    /\ submitted[1] # submitted[2] /\ submitted[2] # submitted[3]
    /\ wpc = "recv"
    /\ out = Frames(submitted)

\* a handle_shutdown call on a "shutdown" request is in progress or has just
\* returned
InShutdown == hs.req # None /\ hs.req[1].method = "shutdown"

\* the success response the handshake owes the request in hs
OwedResponse == MkResponse(hs.req[1].id, Some(JNull), None)

\* the part of C3 and of its amendment that is about the inbound queue:
\* nothing is taken from it before the response was sent, and an "exit"
\* notification that comes next is the one message consumed and gives true
HandshakeInbound ==
    /\ InShutdown /\ apc \in {"hs_send", "hs_recv"} => Len(received) = hs.recv0
    /\ InShutdown /\ apc = "hs_ret" /\ hs.cause = "message" =>
            /\ Len(received) = hs.recv0 + 1
            /\ IsExitMsg(Last(received)) => hs.ret = "true"
    /\ InShutdown /\ apc = "hs_ret" /\ hs.ret = "true" =>
            /\ hs.cause = "message"
            /\ Last(received) = MkNotification("exit", Last(received).params)

\* C3 as stated: once the send of handle_shutdown is over, exactly one
\* Response was pushed onto the outbound queue, with the request's id, a null
\* result and no error, and nothing had been taken from the inbound queue
\* before; an "exit" notification that comes next is the one message
\* consumed and gives true.
C3_AsClaimed ==
    /\ HandshakeInbound
    /\ InShutdown /\ apc \in {"hs_recv", "hs_ret"} =>
            /\ Len(submitted) = hs.sent0 + 1
            /\ Last(submitted) = OwedResponse

\* C3, amended: the Response is pushed exactly once when the writer thread
\* is still there to take it, and not at all when the writer thread has
\* ended (the failed send is ignored); the rest is as claimed.
C3_ShutdownHandshake ==
    /\ HandshakeInbound
    /\ InShutdown /\ apc = "hs_send" => Len(submitted) = hs.sent0 /\ amsg = Some(OwedResponse)
    /\ InShutdown /\ apc \in {"hs_recv", "hs_ret"} /\ hs.pushed =>
            /\ Len(submitted) = hs.sent0 + 1
            /\ Last(submitted) = OwedResponse
    /\ InShutdown /\ apc \in {"hs_recv", "hs_ret"} /\ ~hs.pushed =>
            /\ Len(submitted) = hs.sent0
            /\ wpc = "done" /\ wfailed

\* a handshake that sent its response, took the exit notification and
\* returned true
C3_Witness ==
    /\ InShutdown /\ apc = "hs_ret" /\ hs.ret = "true" /\ hs.pushed
    /\ Last(submitted) = OwedResponse
    /\ IsExitMsg(Last(received))

\* C4: when the message handle_shutdown receives after its response is not
\* an "exit" notification, it returns the "unexpected message" ProtocolError
\* (not true, not false), and that step ends neither the reader nor the
\* writer thread.
C4_ProtocolViolation ==
    [][(InShutdown /\ apc = "hs_recv" /\ Len(received') = Len(received) + 1
            /\ ~(Last(received').variant = "Notification"
                    /\ Last(received').method = "exit"))
        => (/\ apc' = "hs_ret"
            /\ hs'.ret = "unexpected message"
            /\ rres' = "running" /\ rpc' = "read"
            /\ wres' = wres /\ wpc' = wpc)]_vars

\* the handshake got another notification in place of "exit"
C4_Witness ==
    /\ InShutdown /\ apc = "hs_ret" /\ hs.pushed
    /\ hs.ret = "unexpected message"
    /\ Last(received) = NotifOther

\* C5: when the 30 seconds pass without a message, handle_shutdown returns
\* the "unexpected error" ProtocolError, not true; and it never waits
\* without end: while it waits, a message, the timeout or the disconnection
\* is there to end the wait.
C5_Timeout ==
    /\ InShutdown /\ apc = "hs_ret" /\ hs.cause = "timeout" => hs.ret = "unexpected error"
    /\ InShutdown /\ apc = "hs_recv" =>
            ENABLED (HsRecvMsg \/ HsRecvTimeout \/ HsRecvDisconnected)

\* the handshake sent its response and timed out
C5_Witness ==
    /\ InShutdown /\ apc = "hs_ret" /\ hs.pushed
    /\ hs.cause = "timeout" /\ hs.ret = "unexpected error"

\* C6: for a Request whose method is not "shutdown", handle_shutdown returns
\* false at once: no Response goes to the outbound queue and nothing but
\* the request itself has left the inbound queue.
C6_PassThrough ==
    [][(apc = "recv" /\ Len(received') = Len(received) + 1
            /\ Last(received').variant = "Request"
            /\ Last(received').method # "shutdown")
        => (/\ apc' = "hs_ret"
            /\ hs'.ret = "false" /\ ~hs'.pushed
            /\ hs'.req = Some(Last(received'))
            /\ submitted' = submitted /\ amsg' = None
            /\ wmsg' = wmsg /\ wpc' = wpc /\ out' = out)]_vars

\* handle_shutdown returned false for a request with another method
C6_Witness ==
    /\ apc = "hs_ret" /\ hs.ret = "false"
    /\ hs.req = Some(ReqOther)
    /\ Len(submitted) = hs.sent0 /\ Len(received) = hs.recv0

\* C7 as stated: on both transports a failed Message::read or Message::write
\* makes the thread return the error, and join hands it on as an Err value.
C7_AsClaimed ==
    /\ rfailed => rres = "err"
    /\ wfailed => wres = "err"
    /\ (rfailed \/ wfailed) /\ joinRet # "none" => joinRet = "err"

\* C8: once Message::read has failed, the reader holds no message, all it
\* decoded before the bad frame has been delivered, and nothing is decoded
\* or delivered afterwards.
C8_MalformedEndsStream ==
    /\ [](rfailed => rpc = "done" /\ rmsg = None /\ received = decoded)
    /\ [][rfailed => received' = received /\ decoded' = decoded /\ rpos' = rpos]_vars

\* a read failed after a message was delivered, with bytes left unread
C8_Witness ==
    /\ rfailed /\ Len(received) >= 1 /\ received = decoded
    /\ rpos <= Len(inp)

\* C9 as stated: a stream made by Message::write alone reads back, message
\* by message, as the messages written.
C9_AsClaimed ==
    \A k \in 1..Len(creads) :
        (k <= Len(cwritten) /\ \A j \in 1..k : ~cwritten[j].raw)
            => (creads[k].kind = "msg" /\ creads[k].msg = cwritten[k].msg)

\* a line that is only CR LF starts at or after position i of bs
HasBlankLine(bs, i) ==
    \E j \in i..(Len(bs) - 1) :
        /\ bs[j] = CR /\ bs[j + 1] = LF
        /\ j = i \/ bs[j - 1] = LF

\* C10 as stated: a read that finds header lines and then the end of the
\* stream, with no empty line, returns an error.
C10_AsClaimed ==
    \A k \in 1..Len(creads) :
        (creads[k].start <= Len(cbuf) /\ ~HasBlankLine(cbuf, creads[k].start))
            => creads[k].kind = "err"

\* the text of a non-negative decimal integer: digits, with an optional '+'
IsNonNegDecimal(v) ==
    LET ds == IF v # <<>> /\ Head(v) = "+" THEN Tail(v) ELSE v
    IN  ds # <<>> /\ \A k \in 1..Len(ds) : ds[k] \in {Digits[d] : d \in 1..10}

\* the line that starts at position i of bs, up to and with its LF
LineAt(bs, i) == SubSeq(bs, i, LineEnd(bs, i))

\* the line without its last two bytes
LineText(line) == SubSeq(line, 1, Len(line) - 2)

HasSeparator(t) == \E j \in 1..(Len(t) - 1) : t[j] = ":" /\ t[j + 1] = " "

\* t is a Content-Length header; its value is what follows the name and ": "
IsLengthHeader(t) ==
    /\ Len(t) >= Len(ContentLengthName) + 2
    /\ SubSeq(t, 1, Len(ContentLengthName) + 2) = ContentLengthName \o <<":", " ">>

LengthValue(t) == SubSeq(t, Len(ContentLengthName) + 3, Len(t))

RECURSIVE InvalidHeaderEnd(_, _, _)
\* The header block that starts at position i of bs, seen being whether a
\* Content-Length header came before: 0 when the block is none of the four
\* invalid kinds of C11, and otherwise the position right after the first
\* line that makes it invalid.
InvalidHeaderEnd(bs, i, seen) ==
    LET line == LineAt(bs, i)
        after == i + Len(line)
        t == LineText(line)
    IN  IF line = <<>> THEN 0
        ELSE IF ~(Len(line) >= 2 /\ SubSeq(line, Len(line) - 1, Len(line)) = <<CR, LF>>)
             THEN after
        ELSE IF t = <<>> THEN (IF seen THEN 0 ELSE after)
        ELSE IF ~HasSeparator(t) THEN after
        ELSE IF IsLengthHeader(t) /\ ~IsNonNegDecimal(LengthValue(t)) THEN after
        ELSE InvalidHeaderEnd(bs, after, seen \/ IsLengthHeader(t))

\* C11: a read whose header block has a line without CRLF, a non-empty line
\* without ": ", a Content-Length value that is no non-negative decimal
\* integer, or its empty line before any Content-Length, returns an error
\* and no message, and reads nothing past the line that made it invalid.
C11_InvalidHeaders ==
    \A k \in 1..Len(creads) :
        LET bad == InvalidHeaderEnd(cbuf, creads[k].start, FALSE)
        IN  bad # 0 => /\ creads[k].kind = "err"
                       /\ creads[k].msg = None
                       /\ creads[k].next = bad

\* after a frame was read, a read failed on an invalid header block, with
\* bytes behind the bad line left unread
C11_Witness ==
    \E k \in 2..Len(creads) :
        /\ creads[1].kind = "msg"
        /\ InvalidHeaderEnd(cbuf, creads[k].start, FALSE) # 0
        /\ creads[k].kind = "err" /\ creads[k].next <= Len(cbuf)

RECURSIVE DeclaredFrame(_, _, _)
\* For a header block at position i of bs that is not invalid: body is the
\* position right after its empty line (0 when the stream ends before one)
\* and n the value of its last Content-Length header.
DeclaredFrame(bs, i, n) ==
    LET line == LineAt(bs, i)
        after == i + Len(line)
        t == LineText(line)
        v == LengthValue(t)
    IN  IF line = <<>> THEN [body |-> 0, n |-> 0]
        ELSE IF t = <<>> THEN [body |-> after, n |-> n]
        ELSE IF IsLengthHeader(t)
             THEN DeclaredFrame(bs, after,
                                DigitsValue(IF Head(v) = "+" THEN Tail(v) ELSE v, 0))
        ELSE DeclaredFrame(bs, after, n)

\* C12: a read with a valid header block that declares Content-Length: n
\* takes exactly the n bytes after the empty line as its payload, however
\* the stream was delivered, and the next read starts right behind them;
\* when the stream ends before n bytes, the read is an error, neither a
\* message nor "no message".
C12_ExactLength ==
    \A k \in 1..Len(creads) :
        LET f == DeclaredFrame(cbuf, creads[k].start, 0)
            payload == SubSeq(cbuf, f.body, f.body + f.n - 1)
        IN  (InvalidHeaderEnd(cbuf, creads[k].start, FALSE) = 0 /\ f.body # 0) =>
                IF f.body + f.n - 1 <= Len(cbuf)
                THEN /\ creads[k].next = f.body + f.n
                     /\ creads[k].kind \in {"msg", "err"}
                     /\ creads[k].kind = "msg" =>
                            /\ MessageFromStr(payload).ok
                            /\ creads[k].msg = Some(MessageFromStr(payload).x)
                     /\ k < Len(creads) => creads[k + 1].start = f.body + f.n
                ELSE creads[k].kind = "err" /\ creads[k].msg = None

\* a frame that came in two chunks was read whole, and the frame written
\* behind it was read next
C12_Witness ==
    /\ Len(cwritten) = 3 /\ cwritten[1].raw /\ cwritten[2].raw /\ ~cwritten[3].raw
    /\ cbuf = HeadChunk \o TailChunk \o MessageWrite(cwritten[3].msg[1])
    /\ Len(creads) >= 2
    /\ creads[1].kind = "msg" /\ creads[1].next = Len(ChunkedFrame) + 1
    /\ creads[2].kind = "msg" /\ creads[2].msg = cwritten[3].msg

\* a read met the end of the stream inside a declared payload
C12_Truncated ==
    \E k \in 1..Len(creads) :
        LET f == DeclaredFrame(cbuf, creads[k].start, 0)
        IN  /\ InvalidHeaderEnd(cbuf, creads[k].start, FALSE) = 0 /\ f.body # 0
            /\ f.body + f.n - 1 > Len(cbuf)
            /\ f.body <= Len(cbuf)

\* the input stream is closed and all its bytes have been read
Exhausted == inClosed /\ rpos = Len(inp) + 1

\* C13: on a stream exhausted at a header boundary Message::read returns
\* "no message", and so does a read after it; the reader thread that makes
\* this read ends with Ok, having decoded nothing and with no failure.
C13_EndOfStream ==
    /\ [](Exhausted =>
            /\ MessageRead(inp, rpos).kind = "none"
            /\ MessageRead(inp, MessageRead(inp, rpos).next).kind = "none")
    /\ [][(Exhausted /\ rpc = "read" /\ readerVars' # readerVars)
            => (/\ rpc' = "done" /\ rres' = "ok"
                /\ rmsg' = None /\ decoded' = decoded /\ rpos' = rpos
                /\ rfailed' = rfailed)]_vars

\* the reader delivered a frame, then met the end of the stream and ended
\* with Ok
C13_Witness ==
    /\ Exhausted /\ rpc = "done" /\ rres = "ok" /\ ~rfailed
    /\ Len(received) >= 1 /\ received = decoded
    /\ ~IsExitMsg(Last(decoded))

\* the variant Message::read gave for the first frame, "" when it gave none
FirstVariant ==
    IF creads[1].kind = "msg" THEN creads[1].msg[1].variant ELSE ""

\* the variant the presence of id and method selects, "" when both are absent
VariantByPresence(in) ==
    IF in.id # None /\ in.method # None THEN "Request"
    ELSE IF in.id # None THEN "Response"
    ELSE IF in.method # None THEN "Notification"
    ELSE ""

\* C14 as stated, read in the claim's favour: a payload that decodes to a
\* message at all decodes to the variant that the presence of id and method
\* selects, whatever the other fields are.
C14_AsClaimed ==
    \A in \in DecodeInputs :
        (cbuf = PayloadFrame(in) /\ creads # <<>> /\ creads[1].kind = "msg") =>
            FirstVariant = VariantByPresence(in)

\* payloads whose id is a number or a string, whose method is a string and
\* whose error is a ResponseError object do decode, to that variant
C14_WellTyped ==
    \A in \in DecodeInputs :
        (/\ cbuf = PayloadFrame(in) /\ creads # <<>>
         /\ in.id # Some(JNull) /\ in.method # Some(JNum(1))
         /\ in.error # Some(JStr("x"))
         /\ VariantByPresence(in) # "") =>
            FirstVariant = VariantByPresence(in)

\* C15: on the standard-stream transport the writer holds a message exactly
\* while it writes it, that message is the last one submitted, and all the
\* messages submitted before it are whole on the output stream; with the
\* writer waiting, every submitted message is on the stream.  A send
\* completes only in a step in which the waiting writer takes that message,
\* all earlier ones having been written.
C15_BackPressure ==
    /\ [](transport = "stdio" =>
            /\ wmsg # None <=> wpc = "write"
            /\ wpc = "write" =>
                    /\ submitted # <<>> /\ wmsg = Some(Last(submitted))
                    /\ out = Frames(SubSeq(submitted, 1, Len(submitted) - 1))
            /\ wpc = "recv" => out = Frames(submitted))
    /\ [][(transport = "stdio" /\ submitted' # submitted)
            => (/\ submitted' = Append(submitted, amsg[1])
                /\ wpc = "recv" /\ wpc' = "write"
                /\ wmsg' = amsg
                /\ out = Frames(submitted) /\ out' = out)]_vars

\* the application waits in a send while the writer is writing the message
\* submitted before
C15_Witness ==
    /\ transport = "stdio"
    /\ apc = "send" /\ amsg # None
    /\ wpc = "write" /\ wmsg = Some(Last(submitted))
    /\ amsg # wmsg

\* the reader's send of the message it holds completes in this step
ReaderSendDone == rpc = "send" /\ rpc' # "send"

\* C16: the exit notification is the last message the reader decodes and
\* the last the application receives; the step that hands it over ends the
\* reader with Ok, and the reader, once ended, reads and decodes nothing
\* more.  The step that hands over any other message, a Request with method
\* "exit" or a Response carrying "exit" included, sends the reader back to
\* reading.
C16_ReaderStopsAtExit ==
    /\ [](/\ \A k \in 1..Len(decoded) :
                IsExitMsg(decoded[k]) => k = Len(decoded) /\ rpc # "read"
          /\ \A k \in 1..Len(received) :
                IsExitMsg(received[k]) =>
                    k = Len(received) /\ rpc = "done" /\ rres = "ok")
    /\ [][(ReaderSendDone /\ IsExitMsg(rmsg[1]))
            => (/\ rpc' = "done" /\ rres' = "ok"
                /\ received' = Append(received, rmsg[1])
                /\ rpos' = rpos /\ decoded' = decoded)]_vars
    /\ [][(ReaderSendDone /\ ~IsExitMsg(rmsg[1]))
            => (rpc' = "read" /\ rres' = "running")]_vars
    /\ [][rpc = "done" => (rpc' = "done" /\ rpos' = rpos /\ decoded' = decoded
                            /\ received' = received)]_vars

\* a Request with method "exit" went through, then the exit notification
\* ended the reader with a frame behind it left unread
C16_Witness ==
    /\ Len(received) >= 2
    /\ received[1] = ReqOther
    /\ IsExitMsg(Last(received))
    /\ rpc = "done" /\ rres = "ok"
    /\ rpos <= Len(inp)

\* main_loop has returned and with it dropped the Connection, the only
\* sending handle of the outbound queue
SenderDropped == mainRet # "running"

\* C17: a writer thread that has ended without a failed write has ended with
\* Ok, after the sender was dropped and with every submitted message whole
\* on the output stream; the step that ends it is taken by a waiting writer,
\* and writes nothing.  While the sender exists and no write has failed the
\* writer has not ended; once the sender is dropped the waiting writer of a
\* running process can end.
C17_WriterEndsOnClose ==
    /\ [](/\ (wpc = "done" /\ ~wfailed) =>
                /\ wres = "ok" /\ SenderDropped
                /\ wmsg = None /\ out = Frames(submitted)
          /\ (~SenderDropped /\ ~wfailed) => wpc # "done" /\ wres = "running"
          /\ (SenderDropped /\ Alive /\ wpc = "recv") => ENABLED WriterEnd)
    /\ [][(wpc # "done" /\ wpc' = "done" /\ ~wfailed')
            => (/\ wpc = "recv" /\ SenderDropped
                /\ wres' = "ok" /\ out' = out /\ submitted' = submitted)]_vars

\* the writer wrote two messages and ended with Ok after main_loop returned
C17_Witness ==
    /\ wpc = "done" /\ wres = "ok" /\ ~wfailed
    /\ mainRet = "ok"
    /\ Len(submitted) >= 2 /\ out = Frames(submitted)

\* C18: join waits for the reader first: it goes on to the writer only when
\* the reader has ended with Ok, and hands the reader's error or re-raises
\* the reader's panic at once, whatever the writer is doing; then it waits
\* for the writer and returns the writer's Ok or error, or re-raises its
\* panic.  So Ok is returned only when both threads returned Ok, and a
\* panic is never returned as an Err value.
C18_JoinDiscipline ==
    /\ [](/\ apc = "join_writer" => rpc = "done" /\ rres = "ok" /\ joinRet = "none"
          /\ joinRet = "ok" => rres = "ok" /\ wres = "ok"
          /\ joinRet = "err" => rres = "err" \/ (rres = "ok" /\ wres = "err")
          /\ joinRet = "panic" => rres = "panic" \/ (rres = "ok" /\ wres = "panic")
          /\ joinRet # "none" => apc = "exit" /\ mainRet = "ok")
    /\ [][(apc = "join_reader" /\ apc' # apc)
            => (/\ rpc = "done"
                /\ rres = "ok" => apc' = "join_writer" /\ joinRet' = "none"
                /\ rres # "ok" => apc' = "exit" /\ joinRet' = rres)]_vars
    /\ [][(apc = "join_writer" /\ apc' # apc)
            => (wpc = "done" /\ apc' = "exit" /\ joinRet' = wres)]_vars

\* join returned the reader's error while the writer thread was still running
C18_Witness ==
    /\ apc = "exit" /\ joinRet = "err"
    /\ rres = "err" /\ wpc # "done" /\ wres = "running"

\* join re-raised the panic of the writer thread after the reader ended with Ok
C18_WriterPanic ==
    /\ apc = "exit" /\ joinRet = "panic"
    /\ rres = "ok" /\ wres = "panic"

\* join returned Ok
C18_BothOk == apc = "exit" /\ joinRet = "ok" /\ submitted # <<>>

\* the Requests among the messages q, in order
RequestsOf(q) == SelectSeq(q, LAMBDA m : m.variant = "Request")

\* the ids of the messages q, in order
IdsOf(q) == [k \in 1..Len(q) |-> q[k].id]

RECURSIVE IsSubsequence(_, _)
\* a is b with some of its elements left out
IsSubsequence(a, b) ==
    IF a = <<>> THEN TRUE
    ELSE IF b = <<>> THEN FALSE
    ELSE IF Head(a) = Head(b) THEN IsSubsequence(Tail(a), Tail(b))
    ELSE IsSubsequence(a, Tail(b))

\* the application has a message to push onto the outbound queue
PushPending == apc \in {"send", "hs_send"}

\* C19: all that main_loop pushes are Responses, and their ids, in order,
\* are the ids of the Requests received with some left out: each Response
\* answers a Request of its own.  A Response becomes pending only for the
\* Request just received, with that Request's id and with nothing pushed
\* since it came; a push sends the pending Response and leaves nothing
\* pending; receiving a Response or a Notification makes nothing pending.
C19_OneResponsePerRequest ==
    /\ [](/\ \A k \in 1..Len(submitted) : submitted[k].variant = "Response"
          /\ IsSubsequence(IdsOf(submitted), IdsOf(RequestsOf(received)))
          /\ PushPending =>
                /\ amsg # None /\ amsg[1].variant = "Response"
                /\ received # <<>> /\ Last(received).variant = "Request"
                /\ amsg[1].id = Last(received).id
                /\ IsSubsequence(Append(IdsOf(submitted), amsg[1].id),
                                 IdsOf(RequestsOf(received)))
          /\ ~PushPending => amsg = None)
    /\ [][(apc' = "hs_send" /\ apc # "hs_send")
            => (/\ Len(received') = Len(received) + 1
                /\ Last(received').variant = "Request"
                /\ submitted' = submitted)]_vars
    /\ [][(apc' = "send" /\ apc # "send")
            => (/\ apc = "hs_ret" /\ hs.req = Some(Last(received))
                /\ Len(submitted) = hs.sent0 /\ Len(received) = hs.recv0
                /\ received' = received /\ submitted' = submitted)]_vars
    /\ [][submitted' # submitted
            => (/\ PushPending /\ submitted' = Append(submitted, amsg[1])
                /\ amsg' = None /\ apc' \in {"recv", "hs_recv"}
                /\ received' = received)]_vars
    /\ [][(Len(received') = Len(received) + 1
            /\ Last(received').variant # "Request")
            => (amsg' = None /\ submitted' = submitted /\ ~PushPending')]_vars

\* two Requests were answered, each under its own id, and a message that is
\* no Request went by without an answer
C19_Witness ==
    /\ Len(received) = 3 /\ Len(submitted) = 2 /\ apc = "recv"
    /\ Len(RequestsOf(received)) = 2
    /\ IdsOf(submitted) = IdsOf(RequestsOf(received))
    /\ submitted[1].id # submitted[2].id

\* q ends with the elements of suffix
EndsWith(q, suffix) ==
    /\ Len(q) >= Len(suffix)
    /\ SubSeq(q, Len(q) - Len(suffix) + 1, Len(q)) = suffix

\* the peer has sent all it sends: its last frames are a "shutdown" Request
\* and an "exit" Notification, or it has closed the stream
PeerDone ==
    \/ inClosed
    \/ EndsWith(inp, MessageWrite(ReqShutdown) \o MessageWrite(NotifExit))

\* main_loop returned Ok, both threads ended with Ok and join returned Ok
CleanEnd ==
    /\ apc = "exit" /\ mainRet = "ok" /\ joinRet = "ok"
    /\ rpc = "done" /\ rres = "ok"
    /\ wpc = "done" /\ wres = "ok"

\* no thread of the running process can take a step
Quiescent ==
    /\ Alive /\ ~ReaderCanStep
    /\ ~ENABLED (WriterStep \/ AppStep)
    /\ ~(ReaderAwaitsPeer /\ ENABLED HsRecvTimeout)

C20_EndOfStream ==
    /\ CleanEnd /\ inClosed
    /\ received # <<>> /\ \A k \in 1..Len(received) : received[k] # ReqShutdown

\* how many ": " the text t holds
SepCount(t) == Cardinality({j \in 1..(Len(t) - 1) : t[j] = ":" /\ t[j + 1] = " "})

\* C21 as stated, for a header block that has its empty line: a read whose
\* first header line ends in CRLF, is not empty and holds no ": " or more
\* than one, returns an error.
C21_AsClaimed ==
    \A k \in 1..Len(creads) :
        LET line == LineAt(cbuf, creads[k].start)
            t == LineText(line)
        IN  (/\ Len(line) > 2
             /\ SubSeq(line, Len(line) - 1, Len(line)) = <<CR, LF>>
             /\ SepCount(t) # 1
             /\ HasBlankLine(cbuf, creads[k].start)) =>
                creads[k].kind = "err"

\* the half of C21 that holds: a first header line with no ": " is an error
C21_NoSeparator ==
    \A k \in 1..Len(creads) :
        LET line == LineAt(cbuf, creads[k].start)
            t == LineText(line)
        IN  (/\ Len(line) > 2
             /\ SubSeq(line, Len(line) - 1, Len(line)) = <<CR, LF>>
             /\ SepCount(t) = 0) =>
                creads[k].kind = "err" /\ creads[k].why = "malformed header"

====
